---- MODULE Spec2Model ----
(***************************************************************************)
(* Trigger commands of the iobeam command-line client                      *)
(* (command/triggers.go): argument validation, the create request, the    *)
(* id-or-name lookup, and the fetch-then-replace protocol that add-action  *)
(* and remove-action use to change a trigger's action list.                *)
(***************************************************************************)
EXTENDS Integers, Sequences, FiniteSets, TLC

(***************************************************************************)
(* Bounds of the model.                                                    *)
(***************************************************************************)
MaxActions == 2

(***************************************************************************)
(* Input domains.                                                          *)
(***************************************************************************)
Strs == {"", "x"}
Names == {"", "t1"}
ProjectIds == {0, 1}
Expiries == {0, 1}
Delays == {0, 1}
Indexes == 0..(MaxActions + 2)
Clients == {"A", "B"}

(***************************************************************************)
(* uint64 values as four 16-bit limbs, most significant first.             *)
(***************************************************************************)
LimbBase == 65536

U64(n) == <<0, 0, 0, n>>

U64Dec_Saturate(a) ==
  IF a[4] > 0 THEN <<a[1], a[2], a[3], a[4] - 1>>
  ELSE IF a[3] > 0 THEN <<a[1], a[2], a[3] - 1, LimbBase - 1>>
  ELSE IF a[2] > 0 THEN <<a[1], a[2] - 1, LimbBase - 1, LimbBase - 1>>
  ELSE IF a[1] > 0 THEN <<a[1] - 1, LimbBase - 1, LimbBase - 1, LimbBase - 1>>
  ELSE <<0, 0, 0, 0>>

U64Dec(a) ==
  IF a[4] > 0 THEN <<a[1], a[2], a[3], a[4] - 1>>
  ELSE IF a[3] > 0 THEN <<a[1], a[2], a[3] - 1, LimbBase - 1>>
  ELSE IF a[2] > 0 THEN <<a[1], a[2] - 1, LimbBase - 1, LimbBase - 1>>
  ELSE IF a[1] > 0 THEN <<a[1] - 1, LimbBase - 1, LimbBase - 1, LimbBase - 1>>
  ELSE <<LimbBase - 1, LimbBase - 1, LimbBase - 1, LimbBase - 1>>

U64Gt(a, b) ==
  \E i \in 1..4 : a[i] > b[i] /\ \A j \in 1..(i - 1) : a[j] = b[j]

U64Low(a) == a[4]

(***************************************************************************)
(* Pointers to strings: {} is nil, {s} points to s.                        *)
(***************************************************************************)
NilPtr == {}
PtrTo(s) == {s}

(***************************************************************************)
(* triggerData and its validity.                                           *)
(***************************************************************************)
ZeroTriggerData ==
  [TriggerId |-> 0, ProjectId |-> 0, Namespace |-> "", TriggerName |-> "",
   DataExpiry |-> 0, FireWhen |-> "", ReleaseWhenPtr |-> NilPtr,
   releaseWhen |-> "", dumpRequest |-> FALSE, dumpResponse |-> FALSE]

triggerData_IsValid_NoName(d) ==
  d.ProjectId > 0 /\ d.DataExpiry >= 0 /\ Len(d.FireWhen) > 0

triggerData_IsValid(d) ==
  d.ProjectId > 0 /\ Len(d.TriggerName) > 0 /\ d.DataExpiry >= 0
    /\ Len(d.FireWhen) > 0

(***************************************************************************)
(* The action registry and the four action variants.                       *)
(***************************************************************************)
actionTypes == {"email", "http", "mqtt", "sms"}

getActionArgs(action) ==
  CASE action = "email" -> [kind |-> "email", To |-> <<"">>, Subject |-> "", Payload |-> ""]
    [] action = "http" -> [kind |-> "http", URL |-> "", Payload |-> "", AuthHeader |-> "", ContentType |-> ""]
    [] action = "mqtt" -> [kind |-> "mqtt", Broker |-> "", Username |-> "", Password |-> "", QoS |-> 0, Topic |-> "", Payload |-> ""]
    [] action = "sms" -> [kind |-> "sms", AccountSID |-> "", AuthToken |-> "", From |-> "", To |-> "", Payload |-> ""]
    [] OTHER -> [kind |-> "panic"]

getActionType_Twilio(a) ==
  CASE a.kind = "email" -> "email"
    [] a.kind = "http" -> "http"
    [] a.kind = "mqtt" -> "mqtt"
    [] a.kind = "sms" -> "twilio"
    [] OTHER -> "panic"

getActionType(a) ==
  CASE a.kind = "email" -> "email"
    [] a.kind = "http" -> "http"
    [] a.kind = "mqtt" -> "mqtt"
    [] a.kind = "sms" -> "sms"
    [] OTHER -> "panic"

httpActionData_Valid_NoContentType(d) == Len(d.URL) > 0

httpActionData_Valid(d) == Len(d.URL) > 0 /\ Len(d.ContentType) > 0

mqttActionData_Valid_NoPayload(d) == Len(d.Broker) > 0 /\ Len(d.Topic) > 0

mqttActionData_Valid(d) == Len(d.Broker) > 0 /\ Len(d.Topic) > 0 /\ Len(d.Payload) > 0

smsActionData_Valid_NoTo(d) ==
  Len(d.AccountSID) > 0 /\ Len(d.AuthToken) > 0 /\ Len(d.From) > 0
    /\ Len(d.Payload) > 0

smsActionData_Valid(d) ==
  Len(d.AccountSID) > 0 /\ Len(d.AuthToken) > 0 /\ Len(d.From) > 0
    /\ Len(d.To) > 0 /\ Len(d.Payload) > 0

emailActionData_Valid(d) == Len(d.To) > 0 /\ Len(d.Payload) > 0

Valid(d) ==
  CASE d.kind = "email" -> emailActionData_Valid(d)
    [] d.kind = "http" -> httpActionData_Valid(d)
    [] d.kind = "mqtt" -> mqttActionData_Valid(d)
    [] d.kind = "sms" -> smsActionData_Valid(d)

(***************************************************************************)
(* Action data as populated by setFlags: required fields vary, optional    *)
(* fields keep their defaults, at most one required field is left empty.   *)
(***************************************************************************)
Empties(d, fields) == Cardinality({f \in fields : d[f] = ""})

httpInputs ==
  {d \in [kind : {"http"}, URL : Strs, Payload : {""}, AuthHeader : {""},
          ContentType : {"", "text/plain"}] :
     Empties(d, {"URL", "ContentType"}) <= 1}

mqttInputs ==
  {d \in [kind : {"mqtt"}, Broker : Strs, Username : {""}, Password : {""},
          QoS : {0}, Topic : Strs, Payload : Strs] :
     Empties(d, {"Broker", "Topic", "Payload"}) <= 1}

smsInputs ==
  {d \in [kind : {"sms"}, AccountSID : Strs, AuthToken : Strs, From : Strs,
          To : Strs, Payload : Strs] :
     Empties(d, {"AccountSID", "AuthToken", "From", "To", "Payload"}) <= 1}

emailInputs ==
  {d \in [kind : {"email"}, To : {<<"">>, <<"x">>}, Subject : {""},
          Payload : Strs] : TRUE}

setFlags(action) ==
  CASE action = "email" -> emailInputs
    [] action = "http" -> httpInputs
    [] action = "mqtt" -> mqttInputs
    [] action = "sms" -> smsInputs

(***************************************************************************)
(* JSON encoding and decoding of actions and triggers.  A wire object is a *)
(* function from the json field names that are present to their values.    *)
(***************************************************************************)
Opt(present, f, g) == IF present THEN f @@ g ELSE g

MarshalArgs(a) ==
  IF "kind" \notin DOMAIN a THEN a
  ELSE CASE a.kind = "http" ->
              [url |-> a.URL, payload |-> a.Payload,
               auth_header |-> a.AuthHeader, content_type |-> a.ContentType]
         [] a.kind = "mqtt" ->
              [broker_addr |-> a.Broker, username |-> a.Username,
               password |-> a.Password, qos |-> a.QoS, topic |-> a.Topic,
               payload |-> a.Payload]
         [] a.kind = "sms" ->
              [account_sid |-> a.AccountSID, auth_token |-> a.AuthToken,
               from |-> a.From, to |-> a.To, message |-> a.Payload]
         [] a.kind = "email" ->
              Opt(a.Subject # "", "subject" :> a.Subject,
                  [to |-> a.To, payload |-> a.Payload])

MarshalAction(a) ==
  [type |-> a.Type, min_delay |-> a.MinDelay, args |-> MarshalArgs(a.Args)]

UnmarshalAction(w) ==
  [Type |-> w.type, MinDelay |-> w.min_delay, Args |-> w.args]

MarshalTrigger(t) ==
  Opt(t.TriggerId # 0, "trigger_id" :> t.TriggerId,
  Opt(t.DataExpiry # 0, "data_expiry" :> t.DataExpiry,
  Opt(t.ReleaseWhenPtr # NilPtr,
      "release_when" :> (CHOOSE s \in t.ReleaseWhenPtr : TRUE),
      [project_id |-> t.ProjectId, namespace |-> t.Namespace,
       trigger_name |-> t.TriggerName, fire_when |-> t.FireWhen,
       actions |-> [i \in 1..Len(t.Actions) |-> MarshalAction(t.Actions[i])]])))

UnmarshalTrigger(w) ==
  [TriggerId |-> IF "trigger_id" \in DOMAIN w THEN w.trigger_id ELSE 0,
   ProjectId |-> w.project_id,
   Namespace |-> w.namespace,
   TriggerName |-> w.trigger_name,
   DataExpiry |-> IF "data_expiry" \in DOMAIN w THEN w.data_expiry ELSE 0,
   FireWhen |-> w.fire_when,
   ReleaseWhenPtr |-> IF "release_when" \in DOMAIN w
                      THEN PtrTo(w.release_when) ELSE NilPtr,
   releaseWhen |-> "", dumpRequest |-> FALSE, dumpResponse |-> FALSE,
   Actions |-> [i \in 1..Len(w.actions) |-> UnmarshalAction(w.actions[i])]]

newTrigger(name, projectId, dataExpiry, fireWhen, releaseWhen, namespace, actions) ==
  [ZeroTriggerData EXCEPT !.TriggerName = name, !.ProjectId = projectId,
                          !.DataExpiry = dataExpiry, !.FireWhen = fireWhen,
                          !.ReleaseWhenPtr = releaseWhen,
                          !.Namespace = namespace]
    @@ [Actions |-> actions]

ZeroFullTrigger == ZeroTriggerData @@ [Actions |-> <<>>]

(***************************************************************************)
(* The commands the flag parser can hand to the trigger verbs.  A create   *)
(* or add-action command has at most one invalid part: its trigger         *)
(* arguments or its action data.                                           *)
(***************************************************************************)
TriggerIds == {1}
LookupIds == {0, 1, 2}

baseApiPath == <<"/v1/triggers">>

getUrlForResource(path, id) == Append(path, id)

getUrlForTriggerId(id) == getUrlForResource(baseApiPath, id)

createFlags ==
  {d \in {[ZeroTriggerData EXCEPT !.ProjectId = p, !.TriggerName = n,
                                  !.DataExpiry = e, !.FireWhen = f,
                                  !.Namespace = "input"] :
             p \in ProjectIds, n \in Names, e \in Expiries, f \in Strs} :
     Cardinality({f \in {"TriggerName", "FireWhen"} : d[f] = ""})
       + (IF d.ProjectId = 0 THEN 1 ELSE 0) <= 1}

baseFlags(ids, names) ==
  [projectId : ProjectIds, triggerId : ids, triggerName : names]

triggerBaseArgs_IsValid(a) ==
  a.projectId > 0 /\ (a.triggerId > 0 \/ Len(a.triggerName) > 0)

newCreateTypeCommand(action) ==
  {k \in {[verb |-> "create", Name |-> action, ApiPath |-> baseApiPath,
           Data |-> [triggerData |-> td, minDelay |-> m, data |-> d]] :
            td \in createFlags, m \in Delays, d \in setFlags(action)} :
     triggerData_IsValid(k.Data.triggerData) \/ Valid(k.Data.data)}

newAddActionTypeCommand(action) ==
  {k \in {[verb |-> "add-action", Name |-> action, ApiPath |-> <<>>,
           Data |-> [base |-> b, minDelay |-> m, data |-> d]] :
            b \in baseFlags({0}, Names), m \in Delays, d \in setFlags(action)} :
     triggerBaseArgs_IsValid(k.Data.base) \/ Valid(k.Data.data)}

newCreateTriggerCommand ==
  UNION {newCreateTypeCommand(t) : t \in actionTypes}

newAddActionTriggerCommand ==
  UNION {newAddActionTypeCommand(t) : t \in actionTypes}

newRemoveActionTriggerCommand ==
  {[verb |-> "remove-action", Name |-> "remove-action", ApiPath |-> <<>>,
    Data |-> [base |-> b, index |-> i]] :
     b \in baseFlags(LookupIds, Names), i \in Indexes}

newGetTriggerCommand ==
  {[verb |-> "get", Name |-> "get", ApiPath |-> <<>>, Data |-> [base |-> b]] :
     b \in baseFlags(LookupIds, Names)}

newDeleteTriggerCommand ==
  {[verb |-> "delete", Name |-> "delete", ApiPath |-> <<>>, Data |-> [base |-> b]] :
     b \in baseFlags(LookupIds, {""})}

NewTriggersCommand ==
  newAddActionTriggerCommand \cup newCreateTriggerCommand
    \cup newDeleteTriggerCommand \cup newGetTriggerCommand
    \cup newRemoveActionTriggerCommand

NoCommand == [verb |-> "", Name |-> "", ApiPath |-> <<>>, Data |-> <<>>]

(***************************************************************************)
(* Validity of each verb's argument record.                                *)
(***************************************************************************)
triggerGetArgs_IsValid(a) == triggerBaseArgs_IsValid(a.base)

triggerDeleteArgs_IsValid(a) == triggerBaseArgs_IsValid(a.base)

triggerRemoveActionArgs_IsValid(a) ==
  triggerBaseArgs_IsValid(a.base) /\ a.index > 0

createArgs_IsValid_NoData(a) ==
  triggerData_IsValid(a.triggerData) /\ a.minDelay >= 0

createArgs_IsValid(a) ==
  triggerData_IsValid(a.triggerData) /\ a.minDelay >= 0 /\ Valid(a.data)

addActionArgs_IsValid(a) ==
  triggerBaseArgs_IsValid(a.base) /\ a.minDelay >= 0 /\ Valid(a.data)

IsValid(c) ==
  CASE c.verb = "create" -> createArgs_IsValid(c.Data)
    [] c.verb = "add-action" -> addActionArgs_IsValid(c.Data)
    [] c.verb = "remove-action" -> triggerRemoveActionArgs_IsValid(c.Data)
    [] c.verb = "get" -> triggerGetArgs_IsValid(c.Data)
    [] c.verb = "delete" -> triggerDeleteArgs_IsValid(c.Data)

triggerBaseArgs_getApiPath_Base(a) == baseApiPath

triggerBaseArgs_getApiPath(a) ==
  IF a.triggerId > 0 THEN getUrlForTriggerId(a.triggerId) ELSE baseApiPath

(***************************************************************************)
(* The API server as the client sees it: one trigger resource, created by  *)
(* POST, read by GET, overwritten as a whole by PUT, removed by DELETE.    *)
(* Any request may fail in transport or on the server (ok = FALSE).        *)
(***************************************************************************)
NoBody == <<>>

Found(store, req) ==
  /\ store # NoBody
  /\ store[1].project_id = req.project
  /\ IF Len(req.path) = 2
     THEN store[1].trigger_id = req.path[2]
     ELSE <<"name", store[1].trigger_name>> \in req.params

Respond(store, req, ok, newId) ==
  CASE ~ok -> [status |-> 500, body |-> NoBody, store |-> store]
    [] ok /\ req.method = "POST" ->
         IF store = NoBody /\ Len(req.path) = 1
         THEN LET t == ("trigger_id" :> newId) @@ req.body[1]
              IN [status |-> 201, body |-> <<t>>, store |-> <<t>>]
         ELSE [status |-> 409, body |-> NoBody, store |-> store]
    [] ok /\ req.method = "GET" ->
         IF Found(store, req)
         THEN [status |-> 200, body |-> store, store |-> store]
         ELSE [status |-> 404, body |-> NoBody, store |-> store]
    [] ok /\ req.method = "DELETE" ->
         IF Found(store, req)
         THEN [status |-> 204, body |-> NoBody, store |-> NoBody]
         ELSE [status |-> 404, body |-> NoBody, store |-> store]
    [] ok /\ req.method = "PUT" ->
         IF Found(store, req) /\ Len(req.path) = 2
         THEN [status |-> 200, body |-> req.body, store |-> req.body]
         ELSE [status |-> 404, body |-> NoBody, store |-> store]

Execute(store, req, expect, ok, newId) ==
  LET r == Respond(store, req, ok, newId)
  IN [status |-> r.status, store |-> r.store, body |-> r.body,
      err |-> IF r.status = expect THEN "" ELSE "ApiError"]

(***************************************************************************)
(* State.  Each client is one invocation of the command-line program at a  *)
(* time; remote is the trigger held by the API server.                     *)
(*   pc     where the invocation stands: idle, action (arguments accepted, *)
(*          action function not yet run), fetched (between the GET and the *)
(*          PUT of add-action / remove-action), done                       *)
(*   cmd    the command and its parsed argument record                     *)
(*   trig   the fullTrigger the invocation holds in memory                 *)
(*   reqs   the requests the invocation has issued, stat their statuses    *)
(*   err    the error the invocation returned ("" is nil)                  *)
(*   stale  history: the server's trigger was overwritten by somebody else *)
(*          after this invocation fetched it                               *)
(*   probe  a triggerData record and the recorded result of IsValid        *)
(***************************************************************************)
VARIABLES pc, cmd, trig, reqs, stat, err, stale, remote, probe

vars == <<pc, cmd, trig, reqs, stat, err, stale, remote, probe>>

NoProbe == [in |-> ZeroTriggerData, done |-> FALSE, out |-> FALSE]

InitClients ==
  /\ pc = [c \in Clients |-> "idle"]
  /\ cmd = [c \in Clients |-> NoCommand]
  /\ trig = [c \in Clients |-> ZeroFullTrigger]
  /\ reqs = [c \in Clients |-> <<>>]
  /\ stat = [c \in Clients |-> <<>>]
  /\ err = [c \in Clients |-> ""]
  /\ stale = [c \in Clients |-> FALSE]

Init ==
  /\ InitClients
  /\ remote = NoBody
  /\ probe = NoProbe

(***************************************************************************)
(* Building blocks of the action functions.                                *)
(***************************************************************************)
Request(method, path, params, project, body) ==
  [method |-> method, path |-> path, params |-> params, project |-> project,
   body |-> body]

_getTrigger_req(args) ==
  Request("GET", triggerBaseArgs_getApiPath(args),
          IF args.triggerId <= 0 THEN {<<"name", args.triggerName>>} ELSE {},
          args.projectId, NoBody)

deleteTrigger_req(args) ==
  Request("DELETE", triggerBaseArgs_getApiPath(args),
          IF args.triggerId <= 0 THEN {<<"name", args.triggerName>>} ELSE {},
          args.projectId, NoBody)

_putTrigger_req_NoExpiry(trigger) ==
  Request("PUT", getUrlForTriggerId(trigger.TriggerId), {}, trigger.ProjectId,
          <<MarshalTrigger([trigger EXCEPT !.DataExpiry = 0])>>)

_putTrigger_req(trigger) ==
  Request("PUT", getUrlForTriggerId(trigger.TriggerId), {}, trigger.ProjectId,
          <<MarshalTrigger(trigger)>>)

createTrigger_actions_NoDelay(args) ==
  <<[Type |-> getActionType(args.data), MinDelay |-> 0, Args |-> args.data]>>

createTrigger_actions(args) ==
  <<[Type |-> getActionType(args.data), MinDelay |-> args.minDelay,
     Args |-> args.data]>>

createTrigger_body(args) ==
  LET releasePtr == IF Len(args.triggerData.releaseWhen) > 0
                    THEN PtrTo(args.triggerData.releaseWhen) ELSE NilPtr
  IN newTrigger(args.triggerData.TriggerName, args.triggerData.ProjectId,
                args.triggerData.DataExpiry, args.triggerData.FireWhen,
                releasePtr, args.triggerData.Namespace,
                createTrigger_actions(args))

addAction_newAction(args) ==
  [Type |-> getActionType(args.data), MinDelay |-> args.minDelay,
   Args |-> args.data]

addAction_append_Front(actions, newAction) == <<newAction>> \o actions

addAction_append(actions, newAction) == Append(actions, newAction)

delAction_idx(args) == U64Dec(U64(args.index))

delAction_invalid_PlusOne(idx, lenActions) == U64Gt(U64Dec(idx), lenActions)

delAction_invalid_Strict(idx, lenActions) == ~U64Gt(lenActions, idx)

delAction_invalid(idx, lenActions) == U64Gt(idx, lenActions)

delAction_panics(actions, idx) == U64Low(idx) + 1 > Len(actions)

delAction_splice_Next(actions, idx) ==
  SubSeq(actions, 1, idx + 1) \o SubSeq(actions, idx + 3, Len(actions))

delAction_splice(actions, idx) ==
  SubSeq(actions, 1, idx) \o SubSeq(actions, idx + 2, Len(actions))

(***************************************************************************)
(* Bookkeeping shared by the actions.                                      *)
(***************************************************************************)
Sent(c, req, status) ==
  /\ reqs' = [reqs EXCEPT ![c] = Append(@, req)]
  /\ stat' = [stat EXCEPT ![c] = Append(@, status)]

Stored(c, store) ==
  /\ remote' = store
  /\ stale' = [d \in Clients |->
                 IF d # c /\ pc[d] = "fetched" /\ store # remote
                 THEN TRUE ELSE stale[d]]

Return(c, e) ==
  /\ pc' = [pc EXCEPT ![c] = "done"]
  /\ err' = [err EXCEPT ![c] = e]

(***************************************************************************)
(* A new invocation: the flags are parsed into the command's argument      *)
(* record and the record's IsValid decides whether the action function     *)
(* runs at all.                                                            *)
(***************************************************************************)
Invoke(c, commands) ==
  /\ pc[c] = "idle"
  /\ \E k \in commands :
       /\ cmd' = [cmd EXCEPT ![c] = k]
       /\ IF IsValid(k)
          THEN /\ pc' = [pc EXCEPT ![c] = "action"]
               /\ err' = [err EXCEPT ![c] = ""]
          ELSE Return(c, "ValidationError")
  /\ trig' = [trig EXCEPT ![c] = ZeroFullTrigger]
  /\ reqs' = [reqs EXCEPT ![c] = <<>>]
  /\ stat' = [stat EXCEPT ![c] = <<>>]
  /\ stale' = [stale EXCEPT ![c] = FALSE]
  /\ UNCHANGED <<remote, probe>>

(***************************************************************************)
(* The process exits once its action function has returned.               *)
(***************************************************************************)
Exit(c) ==
  /\ pc[c] = "done"
  /\ pc' = [pc EXCEPT ![c] = "idle"]
  /\ cmd' = [cmd EXCEPT ![c] = NoCommand]
  /\ trig' = [trig EXCEPT ![c] = ZeroFullTrigger]
  /\ reqs' = [reqs EXCEPT ![c] = <<>>]
  /\ stat' = [stat EXCEPT ![c] = <<>>]
  /\ err' = [err EXCEPT ![c] = ""]
  /\ stale' = [stale EXCEPT ![c] = FALSE]
  /\ UNCHANGED <<remote, probe>>

createTrigger(c) ==
  /\ pc[c] = "action" /\ cmd[c].verb = "create"
  /\ \E ok \in BOOLEAN, newId \in TriggerIds :
       LET args == cmd[c].Data
           body == createTrigger_body(args)
           req == Request("POST", cmd[c].ApiPath, {}, body.ProjectId,
                          <<MarshalTrigger(body)>>)
           r == Execute(remote, req, 201, ok, newId)
       IN /\ Sent(c, req, r.status)
          /\ Stored(c, r.store)
          /\ trig' = [trig EXCEPT ![c] = IF r.err = ""
                                         THEN UnmarshalTrigger(r.body[1])
                                         ELSE body]
          /\ Return(c, r.err)
  /\ UNCHANGED <<cmd, probe>>

getTrigger(c) ==
  /\ pc[c] = "action" /\ cmd[c].verb = "get"
  /\ \E ok \in BOOLEAN :
       LET req == _getTrigger_req(cmd[c].Data.base)
           r == Execute(remote, req, 200, ok, 0)
       IN /\ Sent(c, req, r.status)
          /\ trig' = [trig EXCEPT ![c] = IF r.err = ""
                                         THEN UnmarshalTrigger(r.body[1])
                                         ELSE ZeroFullTrigger]
          /\ Return(c, r.err)
  /\ UNCHANGED <<cmd, stale, remote, probe>>

deleteTrigger(c) ==
  /\ pc[c] = "action" /\ cmd[c].verb = "delete"
  /\ \E ok \in BOOLEAN :
       LET req == deleteTrigger_req(cmd[c].Data.base)
           r == Execute(remote, req, 204, ok, 0)
       IN /\ Sent(c, req, r.status)
          /\ Stored(c, r.store)
          /\ Return(c, r.err)
  /\ UNCHANGED <<cmd, trig, probe>>

(***************************************************************************)
(* add-action and remove-action: the GET, then, as a separate step, the    *)
(* change of the action list and the PUT.                                  *)
(***************************************************************************)
_getTrigger_IgnoreErr(c, verb) ==
  /\ \E ok \in BOOLEAN :
       LET req == _getTrigger_req(cmd[c].Data.base)
           r == Execute(remote, req, 200, ok, 0)
       IN /\ verb = "add-action" /\ r.err = ""
               => Len(r.body[1].actions) < MaxActions
          /\ Sent(c, req, r.status)
          /\ trig' = [trig EXCEPT ![c] = IF r.err = ""
                                         THEN UnmarshalTrigger(r.body[1])
                                         ELSE @]
          /\ pc' = [pc EXCEPT ![c] = "fetched"]
          /\ UNCHANGED err
  /\ UNCHANGED <<cmd, stale, remote, probe>>

_getTrigger(c, verb) ==
  /\ \E ok \in BOOLEAN :
       LET req == _getTrigger_req(cmd[c].Data.base)
           r == Execute(remote, req, 200, ok, 0)
       IN /\ verb = "add-action" /\ r.err = ""
               => Len(r.body[1].actions) < MaxActions
          /\ Sent(c, req, r.status)
          /\ IF r.err = ""
             THEN /\ trig' = [trig EXCEPT ![c] = UnmarshalTrigger(r.body[1])]
                  /\ pc' = [pc EXCEPT ![c] = "fetched"]
                  /\ UNCHANGED err
             ELSE /\ UNCHANGED trig
                  /\ Return(c, r.err)
  /\ UNCHANGED <<cmd, stale, remote, probe>>

_putTrigger(c, trigger) ==
  \E ok \in BOOLEAN :
    LET req == _putTrigger_req(trigger)
        r == Execute(remote, req, 200, ok, 0)
    IN /\ Sent(c, req, r.status)
       /\ Stored(c, r.store)
       /\ Return(c, r.err)

addActionFetch(c) ==
  /\ pc[c] = "action" /\ cmd[c].verb = "add-action"
  /\ _getTrigger(c, "add-action")

addAction(c) ==
  /\ pc[c] = "fetched" /\ cmd[c].verb = "add-action"
  /\ LET newAction == addAction_newAction(cmd[c].Data)
         trigger == [trig[c] EXCEPT
                       !.Actions = addAction_append(@, newAction)]
     IN /\ trig' = [trig EXCEPT ![c] = trigger]
        /\ _putTrigger(c, trigger)
  /\ UNCHANGED <<cmd, probe>>

delActionFetch(c) ==
  /\ pc[c] = "action" /\ cmd[c].verb = "remove-action"
  /\ _getTrigger(c, "remove-action")

delAction(c) ==
  /\ pc[c] = "fetched" /\ cmd[c].verb = "remove-action"
  /\ LET idx == delAction_idx(cmd[c].Data)
         lenActions == U64(Len(trig[c].Actions))
     IN IF delAction_invalid(idx, lenActions)
        THEN /\ Return(c, "InvalidIndexError")
             /\ UNCHANGED <<trig, reqs, stat, stale, remote>>
        ELSE IF delAction_panics(trig[c].Actions, idx)
        THEN /\ Return(c, "panic")
             /\ UNCHANGED <<trig, reqs, stat, stale, remote>>
        ELSE LET trigger == [trig[c] EXCEPT
                               !.Actions = delAction_splice(@, U64Low(idx))]
             IN /\ trig' = [trig EXCEPT ![c] = trigger]
                /\ _putTrigger(c, trigger)
  /\ UNCHANGED <<cmd, probe>>

(***************************************************************************)
(* One client running every trigger verb against the server.               *)
(***************************************************************************)
Solo == {"A"}

Next ==
  \E c \in Solo :
    \/ Invoke(c, NewTriggersCommand)
    \/ createTrigger(c)
    \/ getTrigger(c)
    \/ deleteTrigger(c)
    \/ addActionFetch(c)
    \/ addAction(c)
    \/ delActionFetch(c)
    \/ delAction(c)
    \/ Exit(c)

Spec == Init /\ [][Next]_vars

TypeOK ==
  /\ pc \in [Clients -> {"idle", "action", "fetched", "done"}]
  /\ err \in [Clients -> {"", "ValidationError", "ApiError",
                          "InvalidIndexError", "panic"}]
  /\ \A c \in Clients : Len(reqs[c]) = Len(stat[c])

(***************************************************************************)
(* Two clients changing the action list of the same trigger.  The trigger  *)
(* exists from the start (as create and add-action leave it); both clients *)
(* address it by id and run valid add-action and remove-action commands.   *)
(***************************************************************************)
RaceKinds == {"http", "sms"}

RaceEntries ==
  {MarshalAction([Type |-> getActionType(d), MinDelay |-> 0, Args |-> d]) :
     d \in {x \in httpInputs \cup smsInputs : Valid(x)}}

RaceStores ==
  {<<[trigger_id |-> 1, project_id |-> 1, namespace |-> "input",
      trigger_name |-> "t1", fire_when |-> "x", actions |-> l]>> :
     l \in UNION {[1..n -> RaceEntries] : n \in 0..MaxActions}}

RaceCommands ==
  {k \in newAddActionTriggerCommand :
     IsValid(k) /\ k.Name \in RaceKinds /\ k.Data.minDelay = 0}
  \cup
  {k \in newRemoveActionTriggerCommand :
     IsValid(k) /\ k.Data.base.triggerId = 1 /\ k.Data.base.triggerName = ""}

InitRace ==
  /\ InitClients
  /\ remote \in RaceStores
  /\ probe = NoProbe

NextRace ==
  \E c \in Clients :
    \/ Invoke(c, RaceCommands)
    \/ addActionFetch(c)
    \/ addAction(c)
    \/ delActionFetch(c)
    \/ delAction(c)
    \/ Exit(c)

SpecRace == InitRace /\ [][NextRace]_vars

(***************************************************************************)
(* IsValid of triggerData applied to arbitrary records.                    *)
(***************************************************************************)
TriggerDataInputs ==
  {[ZeroTriggerData EXCEPT !.TriggerId = i, !.ProjectId = p, !.Namespace = ns,
                           !.TriggerName = n, !.DataExpiry = e,
                           !.FireWhen = f] :
     i \in LookupIds, p \in ProjectIds, ns \in {"", "input"},
     n \in {"", "trigger"}, e \in Expiries, f \in Strs}

InitData ==
  /\ InitClients
  /\ remote = NoBody
  /\ probe \in [in : TriggerDataInputs, done : {FALSE}, out : {FALSE}]

TestTriggerDataValidity ==
  /\ ~probe.done
  /\ probe' = [probe EXCEPT !.done = TRUE, !.out = triggerData_IsValid(probe.in)]
  /\ UNCHANGED <<pc, cmd, trig, reqs, stat, err, stale, remote>>

NextData == TestTriggerDataValidity

SpecData == InitData /\ [][NextData]_vars

(***************************************************************************)
(* Properties.                                                             *)
(***************************************************************************)
Index(c) == cmd[c].Data.index

Fetched(c) == trig[c].Actions

DelStep(c) ==
  pc[c] = "fetched" /\ cmd[c].verb = "remove-action" /\ pc'[c] = "done"

AddStep(c) ==
  pc[c] = "fetched" /\ cmd[c].verb = "add-action" /\ pc'[c] = "done"

IssuesOne(c, method) ==
  /\ Len(reqs'[c]) = Len(reqs[c]) + 1
  /\ SubSeq(reqs'[c], 1, Len(reqs[c])) = reqs[c]
  /\ reqs'[c][Len(reqs'[c])].method = method

PutActions(c) == reqs'[c][Len(reqs'[c])].body[1].actions

IssuesNone(c) == reqs'[c] = reqs[c] /\ remote' = remote

RemovedAt(actions, i) ==
  [j \in 1..(Len(actions) - 1) |->
     MarshalAction(actions[IF j < i THEN j ELSE j + 1])]

NewEntry(c) ==
  [type |-> cmd[c].Name, min_delay |-> cmd[c].Data.minDelay,
   args |-> MarshalArgs(cmd[c].Data.data)]

C2_RejectsBeyond ==
  [][\A c \in Clients :
       (DelStep(c) /\ Index(c) > Len(Fetched(c)) + 1)
         => err'[c] = "InvalidIndexError" /\ IssuesNone(c)]_vars

C2_Witness ==
  \E c \in Clients :
    /\ pc[c] = "done" /\ cmd[c].verb = "remove-action"
    /\ err[c] = "InvalidIndexError" /\ stat[c] = <<200>>
    /\ remote # NoBody /\ Index(c) > Len(remote[1].actions) + 1

(* C3: remove-action with index i = N+1 is not rejected with the           *)
(* invalid-index error; the removal fails in the slice operation and no    *)
(* PUT is issued.                                                          *)
C3_BoundaryPanics ==
  [][\A c \in Clients :
       (DelStep(c) /\ Index(c) = Len(Fetched(c)) + 1)
         => err'[c] = "panic" /\ IssuesNone(c)]_vars

C3_Witness ==
  \E c \in Clients :
    /\ pc[c] = "done" /\ cmd[c].verb = "remove-action"
    /\ err[c] = "panic" /\ stat[c] = <<200>>
    /\ remote # NoBody /\ Index(c) = Len(remote[1].actions) + 1

(* C4: add-action on a fetched list of N actions issues one PUT whose list *)
(* has N+1 entries: the fetched N, unchanged and in order, then the new    *)
(* action (type of the sub-command, the supplied MinDelay, the bound data).*)
C4_AddAppends ==
  [][\A c \in Clients :
       AddStep(c)
         => /\ IssuesOne(c, "PUT")
            /\ Len(PutActions(c)) = Len(Fetched(c)) + 1
            /\ \A j \in 1..Len(Fetched(c)) :
                 PutActions(c)[j] = MarshalAction(Fetched(c)[j])
            /\ PutActions(c)[Len(Fetched(c)) + 1] = NewEntry(c)
            /\ SubSeq(PutActions(c), 1, Len(Fetched(c))) = remote[1].actions]_vars

C4_Witness ==
  \E c \in Clients :
    /\ pc[c] = "done" /\ cmd[c].verb = "add-action" /\ err[c] = ""
    /\ Len(reqs[c]) = 2 /\ reqs[c][2].method = "PUT" /\ stat[c] = <<200, 200>>
    /\ Len(remote[1].actions) = 2
    /\ remote[1].actions[2] = NewEntry(c)
    /\ remote[1].actions[1] # NewEntry(c)

PutStep(c) ==
  /\ pc[c] = "fetched" /\ pc'[c] = "done"
  /\ Len(reqs'[c]) = Len(reqs[c]) + 1

Computed(c) ==
  IF cmd[c].verb = "add-action"
  THEN [j \in 1..(Len(Fetched(c)) + 1) |->
          IF j <= Len(Fetched(c)) THEN MarshalAction(Fetched(c)[j])
          ELSE NewEntry(c)]
  ELSE RemovedAt(Fetched(c), Index(c))

(* C5: when another client's replace reached the server between this      *)
(* client's fetch and its replace, the server answers this client's        *)
(* replace like any other (no conflict status), and once it is accepted    *)
(* the server's action list is the one this client computed from its own   *)
(* snapshot, with no error returned: the other client's change is lost.    *)
C5_LastWriterWins ==
  [][\A c \in Clients :
       (PutStep(c) /\ stale[c])
         => \/ /\ stat'[c][2] = 200 /\ err'[c] = ""
               /\ remote'[1].actions = Computed(c)
            \/ /\ stat'[c][2] = 500 /\ remote' = remote]_vars

C5_Witness ==
  \E c, d \in Clients :
    /\ c # d
    /\ pc[c] = "done" /\ stale[c] /\ err[c] = ""
    /\ stat[c] = <<200, 200>> /\ remote = reqs[c][2].body
    /\ pc[d] = "done" /\ err[d] = "" /\ stat[d] = <<200, 200>>
    /\ reqs[d][2].body # remote

CreateFieldsValid(c) ==
  /\ cmd[c].Data.triggerData.ProjectId > 0
  /\ cmd[c].Data.triggerData.TriggerName # ""
  /\ cmd[c].Data.triggerData.FireWhen # ""
  /\ Valid(cmd[c].Data.data)

(* C6: create issues a POST only if the trigger metadata is valid          *)
(* (ProjectId>0, TriggerName and FireWhen non-empty) and the action data   *)
(* is valid; otherwise it fails with a validation error and sends nothing. *)
C6_CreateGated ==
  \A c \in Clients :
    /\ \A j \in 1..Len(reqs[c]) :
         reqs[c][j].method = "POST"
           => cmd[c].verb = "create" /\ CreateFieldsValid(c)
    /\ (cmd[c].verb = "create" /\ ~CreateFieldsValid(c))
         => pc[c] = "done" /\ err[c] = "ValidationError" /\ reqs[c] = <<>>

C6_Witness ==
  \E c \in Clients :
    /\ pc[c] = "done" /\ cmd[c].verb = "create"
    /\ triggerData_IsValid(cmd[c].Data.triggerData)
    /\ ~Valid(cmd[c].Data.data)
    /\ err[c] = "ValidationError" /\ reqs[c] = <<>>

(* C7: a valid create issues exactly one POST to /v1/triggers whose body   *)
(* is the trigger assembled from the flags with exactly one action entry,  *)
(* typed by the sub-command and carrying the supplied MinDelay; it         *)
(* succeeds only when the response status is 201.                          *)
C7_CreatePostsOne ==
  \A c \in Clients :
    (pc[c] = "done" /\ cmd[c].verb = "create" /\ CreateFieldsValid(c))
      => /\ Len(reqs[c]) = 1
         /\ reqs[c][1].method = "POST"
         /\ reqs[c][1].path = <<"/v1/triggers">>
         /\ LET b == reqs[c][1].body[1]
                td == cmd[c].Data.triggerData
            IN /\ b.project_id = td.ProjectId
               /\ b.namespace = td.Namespace
               /\ b.trigger_name = td.TriggerName
               /\ b.fire_when = td.FireWhen
               /\ IF td.DataExpiry = 0 THEN "data_expiry" \notin DOMAIN b
                  ELSE b.data_expiry = td.DataExpiry
               /\ "release_when" \notin DOMAIN b
               /\ "trigger_id" \notin DOMAIN b
               /\ Len(b.actions) = 1
               /\ b.actions[1] = NewEntry(c)
         /\ err[c] = "" <=> stat[c][1] = 201

C7_Witness ==
  \E c \in Clients :
    /\ pc[c] = "done" /\ cmd[c].verb = "create" /\ cmd[c].Name = "http"
    /\ cmd[c].Data.minDelay = 1
    /\ err[c] = "" /\ stat[c] = <<201>>
    /\ reqs[c][1].body[1].actions[1].type = "http"
    /\ reqs[c][1].body[1].actions[1].min_delay = 1
    /\ remote # NoBody /\ remote[1].trigger_id > 0

(* C8: trigger lookup uses exactly one key: with triggerId>0 the path is   *)
(* /v1/triggers/{triggerId} and no name parameter is sent even when a      *)
(* name is set; with triggerId=0 the path is /v1/triggers and the          *)
(* parameter name=<triggerName> is sent.                                   *)
C8_OneLookupKey ==
  \A c \in Clients :
    (cmd[c].verb \in {"get", "delete", "add-action", "remove-action"}
       /\ Len(reqs[c]) >= 1)
      => LET r == reqs[c][1]
             b == cmd[c].Data.base
         IN /\ r.method = IF cmd[c].verb = "delete" THEN "DELETE" ELSE "GET"
            /\ b.triggerId > 0
                 => r.path = <<"/v1/triggers", b.triggerId>> /\ r.params = {}
            /\ b.triggerId = 0
                 => /\ r.path = <<"/v1/triggers">>
                    /\ r.params = {<<"name", b.triggerName>>}

C8_Witness ==
  \E c \in Clients :
    /\ cmd[c].verb = "remove-action" /\ Len(reqs[c]) >= 1
    /\ cmd[c].Data.base.triggerId > 0 /\ cmd[c].Data.base.triggerName # ""
    /\ reqs[c][1].path = <<"/v1/triggers", cmd[c].Data.base.triggerId>>
    /\ reqs[c][1].params = {}
    /\ stat[c][1] = 200

C10_TestExpectation ==
  probe.done
    => /\ (/\ probe.in.ProjectId > 0 /\ probe.in.TriggerName # ""
           /\ probe.in = [ZeroTriggerData EXCEPT
                            !.ProjectId = probe.in.ProjectId,
                            !.TriggerName = probe.in.TriggerName])
            => probe.out
       /\ (probe.in.ProjectId = 0 \/ probe.in.TriggerName = "")
            => ~probe.out

(***************************************************************************)
(* Valid() of the four action variants applied to the records the registry *)
(* hands out, every flag-bound field set or left empty.                    *)
(***************************************************************************)
emailData ==
  {[getActionArgs("email") EXCEPT !.To = <<t>>, !.Subject = s, !.Payload = p] :
     t \in Strs, s \in Strs, p \in Strs}

httpData ==
  {[getActionArgs("http") EXCEPT !.URL = u, !.Payload = p, !.AuthHeader = h,
                                 !.ContentType = ct] :
     u \in Strs, p \in Strs, h \in Strs, ct \in {"", "text/plain"}}

mqttData ==
  {[getActionArgs("mqtt") EXCEPT !.Broker = b, !.Username = u, !.Password = pw,
                                 !.QoS = q, !.Topic = t, !.Payload = p] :
     b \in Strs, u \in Strs, pw \in Strs, q \in {0, 1}, t \in Strs, p \in Strs}

smsData ==
  {[getActionArgs("sms") EXCEPT !.AccountSID = a, !.AuthToken = k, !.From = f,
                                !.To = t, !.Payload = p] :
     a \in Strs, k \in Strs, f \in Strs, t \in Strs, p \in Strs}

InitArgs ==
  /\ InitClients
  /\ remote = NoBody
  /\ probe \in [in : emailData \cup httpData \cup mqttData \cup smsData,
                done : {FALSE}, out : {FALSE}]

Probed(kind, valid) ==
  /\ ~probe.done /\ getActionType(probe.in) = kind
  /\ probe' = [probe EXCEPT !.done = TRUE, !.out = valid]
  /\ UNCHANGED <<pc, cmd, trig, reqs, stat, err, stale, remote>>

TestEmailDataValidity ==
  /\ getActionType(probe.in) = "email"
  /\ Probed("email", emailActionData_Valid(probe.in))

TestHTTPDataValidity ==
  /\ getActionType(probe.in) = "http"
  /\ Probed("http", httpActionData_Valid(probe.in))

TestMQTTDataValidity ==
  /\ getActionType(probe.in) = "mqtt"
  /\ Probed("mqtt", mqttActionData_Valid(probe.in))

TestSMSDataValidity ==
  /\ getActionType(probe.in) = "sms"
  /\ Probed("sms", smsActionData_Valid(probe.in))

NextArgs ==
  \/ TestEmailDataValidity
  \/ TestHTTPDataValidity
  \/ TestMQTTDataValidity
  \/ TestSMSDataValidity

SpecArgs == InitArgs /\ [][NextArgs]_vars

ProbedKind(kind) == probe.done /\ probe.in.kind = kind

(* C11: Valid() of an Email action record that the registry produced and   *)
(* the flags populated holds if and only if the first recipient To[0] and  *)
(* Payload are both non-empty; with no -to value the record is invalid.    *)
C11_EmailValid ==
  ProbedKind("email")
    => (probe.out <=> probe.in.To[1] # "" /\ probe.in.Payload # "")

(* C12: Valid() of an Http action record holds if and only if URL and      *)
(* ContentType are non-empty; Payload and AuthHeader do not matter.        *)
C12_HttpValid ==
  ProbedKind("http")
    => (probe.out <=> probe.in.URL # "" /\ probe.in.ContentType # "")

C12_Witness ==
  /\ ProbedKind("http") /\ probe.out
  /\ probe.in.Payload = "" /\ probe.in.AuthHeader = ""

(* C13: Valid() of an Mqtt action record holds if and only if Broker,      *)
(* Topic and Payload are all non-empty; Username, Password and QoS do not  *)
(* matter.                                                                 *)
C13_MqttValid ==
  ProbedKind("mqtt")
    => (probe.out <=> /\ probe.in.Broker # "" /\ probe.in.Topic # ""
                      /\ probe.in.Payload # "")

C13_Witness ==
  /\ ProbedKind("mqtt") /\ probe.out
  /\ probe.in.Username = "" /\ probe.in.Password = "" /\ probe.in.QoS = 0

(* C14: Valid() of an Sms action record holds if and only if AccountSID,   *)
(* AuthToken, From, To and Payload are all non-empty.                      *)
C14_SmsValid ==
  ProbedKind("sms")
    => (probe.out <=> /\ probe.in.AccountSID # "" /\ probe.in.AuthToken # ""
                      /\ probe.in.From # "" /\ probe.in.To # ""
                      /\ probe.in.Payload # "")

C14_Witness ==
  /\ ProbedKind("sms") /\ probe.out
  /\ probe.in.AccountSID # "" /\ probe.in.To # ""

(* C15: add-action and remove-action issue their PUT only after their GET  *)
(* has completed with status 200; a failed GET returns its error with no   *)
(* PUT; a failed PUT returns its error with no further request; no         *)
(* invocation issues more than two requests.                               *)
C15_FetchThenReplace ==
  \A c \in Clients :
    /\ Len(reqs[c]) <= 2
    /\ \A j \in 1..Len(reqs[c]) :
         reqs[c][j].method = "PUT"
           => /\ j = 2
              /\ cmd[c].verb \in {"add-action", "remove-action"}
              /\ reqs[c][1].method = "GET" /\ stat[c][1] = 200
    /\ (cmd[c].verb \in {"add-action", "remove-action"} /\ Len(reqs[c]) >= 1)
         => /\ reqs[c][1].method = "GET"
            /\ stat[c][1] # 200
                 => pc[c] = "done" /\ err[c] = "ApiError" /\ Len(reqs[c]) = 1
            /\ (Len(reqs[c]) = 2 /\ stat[c][2] # 200)
                 => pc[c] = "done" /\ err[c] = "ApiError"

C15_Witness ==
  \E c \in Clients :
    /\ pc[c] = "done" /\ cmd[c].verb = "add-action"
    /\ Len(reqs[c]) = 2 /\ reqs[c][2].method = "PUT"
    /\ stat[c] = <<200, 500>> /\ err[c] = "ApiError"

(* C16: the PUT of add-action and remove-action goes to                    *)
(* /v1/triggers/{TriggerId} of the fetched trigger, is authorized with the *)
(* fetched trigger's ProjectId, and its body is the fetched trigger with   *)
(* every metadata field unchanged; only the action list differs.           *)
C16_FullOverwrite ==
  [][\A c \in Clients :
       (PutStep(c) /\ ~stale[c])
         => LET put == reqs'[c][2]
                b == put.body[1]
                f == remote[1]
            IN /\ put.method = "PUT"
               /\ put.path = <<"/v1/triggers", f.trigger_id>>
               /\ put.params = {}
               /\ put.project = f.project_id
               /\ DOMAIN b = DOMAIN f
               /\ \A k \in DOMAIN f \ {"actions"} : b[k] = f[k]
               /\ b.actions # f.actions
               /\ DOMAIN f \ {"data_expiry", "release_when"}
                    = {"trigger_id", "project_id", "namespace",
                       "trigger_name", "fire_when", "actions"}]_vars

C16_Witness ==
  \E c \in Clients :
    /\ pc[c] = "done" /\ cmd[c].verb = "add-action"
    /\ cmd[c].Data.base.triggerId = 0
    /\ stat[c] = <<200, 200>>
    /\ reqs[c][2].path = <<"/v1/triggers", 1>>
    /\ "data_expiry" \in DOMAIN reqs[c][2].body[1]
    /\ remote = reqs[c][2].body

(***************************************************************************)
(* The action registry: a kind name is resolved to a variant, the flags    *)
(* populate it, and the variant is mapped back to its wire type.  A name   *)
(* or a variant outside the registry ends in its panic.                    *)
(***************************************************************************)
KindNames == actionTypes \cup {"", "HTTP", "twilio"}

NoName == "-"

NoVariant == [kind |-> "nil"]

UnknownAction == [kind |-> "panic"]

UnregisteredVariants == {[kind |-> "triggerData"], [kind |-> "fullTrigger"]}

InitRegistry ==
  /\ InitClients
  /\ remote = NoBody
  /\ probe \in {[name |-> k, in |-> NoVariant, stage |-> "name", type |-> ""] :
                  k \in KindNames}
               \cup
               {[name |-> NoName, in |-> v, stage |-> "bound", type |-> ""] :
                  v \in UnregisteredVariants}

Resolve ==
  /\ probe.stage = "name"
  /\ LET a == getActionArgs(probe.name)
     IN probe' = [probe EXCEPT !.in = a,
                               !.stage = IF a = UnknownAction
                                         THEN "panic" ELSE "resolved"]
  /\ UNCHANGED <<pc, cmd, trig, reqs, stat, err, stale, remote>>

Bind ==
  /\ probe.stage = "resolved"
  /\ \E d \in emailData \cup httpData \cup mqttData \cup smsData :
       /\ d.kind = probe.in.kind
       /\ probe' = [probe EXCEPT !.in = d, !.stage = "bound"]
  /\ UNCHANGED <<pc, cmd, trig, reqs, stat, err, stale, remote>>

KindOf ==
  /\ probe.stage = "bound"
  /\ LET t == getActionType(probe.in)
     IN probe' = [probe EXCEPT !.type = t,
                               !.stage = IF t = "panic"
                                         THEN "panic" ELSE "typed"]
  /\ UNCHANGED <<pc, cmd, trig, reqs, stat, err, stale, remote>>

NextRegistry == Resolve \/ Bind \/ KindOf

SpecRegistry == InitRegistry /\ [][NextRegistry]_vars

(* C17: for each of the four kind names email, http, mqtt, sms, the keys   *)
(* the command trees are built from, getActionArgs returns a new zero      *)
(* variant of that kind and getActionType of it gives the name back; any   *)
(* other name, and any variant outside the registry, ends in the same      *)
(* unknown-action-type failure.                                            *)
C17_RegistryBijection ==
  /\ actionTypes = {"email", "http", "mqtt", "sms"}
  /\ (probe.stage # "name" /\ probe.name \in {"email", "http", "mqtt", "sms"})
       => /\ probe.stage \in {"resolved", "bound", "typed"}
          /\ probe.in.kind = probe.name
          /\ probe.stage = "resolved"
               => \A f \in DOMAIN probe.in \ {"kind"} :
                    probe.in[f] = IF f = "QoS" THEN 0
                                  ELSE IF f = "To" /\ probe.name = "email"
                                  THEN <<"">> ELSE ""
          /\ probe.stage = "typed" => probe.type = probe.name
  /\ (probe.stage # "name" /\ probe.name # NoName
        /\ probe.name \notin {"email", "http", "mqtt", "sms"})
       => probe.stage = "panic" /\ probe.in = UnknownAction
  /\ (probe.name = NoName /\ probe.stage # "bound")
       => probe.stage = "panic" /\ probe.type = UnknownAction.kind

C17_Witness ==
  /\ probe.stage = "typed" /\ probe.name = "sms" /\ probe.type = "sms"
  /\ probe.in.To = "x"

(***************************************************************************)
(* remove-action with its action function entered directly, the record's   *)
(* IsValid not consulted, against a stored trigger.                        *)
(***************************************************************************)
Call(c, commands) ==
  /\ pc[c] = "idle"
  /\ \E k \in commands : cmd' = [cmd EXCEPT ![c] = k]
  /\ pc' = [pc EXCEPT ![c] = "action"]
  /\ err' = [err EXCEPT ![c] = ""]
  /\ trig' = [trig EXCEPT ![c] = ZeroFullTrigger]
  /\ reqs' = [reqs EXCEPT ![c] = <<>>]
  /\ stat' = [stat EXCEPT ![c] = <<>>]
  /\ stale' = [stale EXCEPT ![c] = FALSE]
  /\ UNCHANGED <<remote, probe>>

InitDirect ==
  /\ InitClients
  /\ remote \in RaceStores
  /\ probe = NoProbe

NextDirect ==
  \E c \in Solo :
    \/ Call(c, newRemoveActionTriggerCommand)
    \/ delActionFetch(c)
    \/ delAction(c)
    \/ Exit(c)

SpecDirect == InitDirect /\ [][NextDirect]_vars

(* C18: a remove-action record with index 0 is invalid, and when delAction *)
(* runs with index 0 anyway the zero-based index wraps to 2^64-1, exceeds  *)
(* the action count, the invalid-index error is returned and no PUT is     *)
(* issued, so nothing is removed.                                          *)
C18_IndexZero ==
  [][\A c \in Clients :
       /\ (cmd'[c].verb = "remove-action" /\ cmd'[c].Data.index = 0)
            => ~triggerRemoveActionArgs_IsValid(cmd'[c].Data)
       /\ (DelStep(c) /\ Index(c) = 0)
            => /\ delAction_idx(cmd[c].Data)
                    = <<LimbBase - 1, LimbBase - 1, LimbBase - 1, LimbBase - 1>>
               /\ err'[c] = "InvalidIndexError"
               /\ IssuesNone(c)]_vars

C18_Witness ==
  \E c \in Clients :
    /\ pc[c] = "done" /\ cmd[c].verb = "remove-action" /\ Index(c) = 0
    /\ stat[c] = <<200>> /\ err[c] = "InvalidIndexError"
    /\ Len(remote[1].actions) = MaxActions

====
